---- MODULE Spec2Model ----
(***************************************************************************)
(* Model of the CCTV face search service.                                  *)
(*                                                                         *)
(* The repository holds three entry points over two search components:     *)
(*   - src/main.py       : REST routes over FaceSearcher                   *)
(*                         (src/app/face_search.py), a metadata search     *)
(*                         over the MongoDB faces collection;              *)
(*   - src/app/main.py   : REST routes over RAGEngine                      *)
(*                         (src/app/rag_engine.py), an in-memory vector    *)
(*                         store with a ranked cosine search;              *)
(*   - src/tests/test_search.py : the similarity searches of FaceSearcher  *)
(*                         (find_photos_with_person, find_unknown_faces    *)
(*                         with a threshold), whose implementation is not  *)
(*                         part of the sources and is taken from the       *)
(*                         specification, sections 4.1 and 4.2.            *)
(*                                                                         *)
(* SpecMain, SpecRag and SpecTests run one entry point each and Spec any   *)
(* of the three, over a store and an embedder that answer; SpecUpstream    *)
(* runs src/main.py over a store and an embedder that may fail.            *)
(*                                                                         *)
(* Python values: a dict is a function from its keys (a missing key is     *)
(* missing from the DOMAIN), a list is a sequence (Python index i is       *)
(* position i+1), None and list values that may share a field are tagged   *)
(* records (PyNone, PyList).  A float in [-1, 1] is the exact rational     *)
(* sgn(x) * x^2 held as <<numerator, denominator>>, which keeps the order  *)
(* of the floats; <<0, 0>> is NaN (the outcome of 0.0 / 0.0).              *)
(***************************************************************************)
EXTENDS Integers, Sequences, FiniteSets, TLC

VARIABLES
    app,                     \* the entry point this process runs
    faces_collection,        \* documents of the faces collection, in cursor order
    known_faces_collection,  \* documents of the known-faces collection
    texts,                   \* RAGEngine.texts
    vectors,                 \* RAGEngine.vectors: None or the stacked rows
    metadata,                \* RAGEngine.metadata
    response                 \* outcome of the last call: op, args, status, result

vars == <<app, faces_collection, known_faces_collection, texts, vectors, metadata, response>>

(***************************************************************************)
(* Bounds                                                                  *)
(***************************************************************************)
MaxDocs == 2       \* documents in the faces collection
MaxFaces == 1      \* largest stored face_count
MaxNames == 2      \* names in one POST /faces/known request
MaxRecords == 2    \* records handed to one load_vectors call
MaxTopK == 2       \* largest top_k of a query
MaxRefs == 2       \* documents in the known-faces collection

(***************************************************************************)
(* Python values                                                           *)
(***************************************************************************)
PyNone == [type |-> "NoneType"]
PyList(items) == [type |-> "list", items |-> items]
EmptyDict == [k \in {} |-> PyNone]

\* dict.get(key, default)
Get(d, key, default) == IF key \in DOMAIN d THEN d[key] ELSE default

\* isinstance(v, list)
IsList(v) == v.type = "list"

\* str(v) of an _id: an ObjectId prints its value, None prints "None"
Str(v) == IF "ObjectId" \in DOMAIN v THEN ToString(v.ObjectId) ELSE "None"

Min(a, b) == IF a <= b THEN a ELSE b
Max(a, b) == IF a >= b THEN a ELSE b

\* the elements of a sequence
Range(s) == {s[i] : i \in DOMAIN s}

\* sequences over S of length lo..hi
SeqsOf(S, lo, hi) == UNION {[1..n -> S] : n \in lo..hi}

(***************************************************************************)
(* The faces collection read by FaceSearcher                               *)
(***************************************************************************)
PersonNames == {"Alice", "Bob"}

MatchedLists == {PyList(<<>>), PyList(<<"Alice">>), PyList(<<"Alice", "Bob">>)}

\* the fields of a face document that the searches read: a face_count one
\* below, at or one above the number of matched persons, or one of the two
\* missing, or matched_persons null, or a stored embedding, or a document
\* without faces
FaceDocBodies ==
    UNION {{[has_faces |-> TRUE, face_count |-> n, matched_persons |-> l] :
               l \in {m \in MatchedLists : Len(m.items) \in (n - 1)..(n + 1)}} :
              n \in 0..MaxFaces}
    \cup
    {[has_faces |-> TRUE, matched_persons |-> PyList(<<"Alice">>)],
     [has_faces |-> TRUE, face_count |-> MaxFaces, embedding |-> <<1, 0>>],
     [has_faces |-> TRUE, face_count |-> MaxFaces, matched_persons |-> PyNone],
     [has_faces |-> FALSE, face_count |-> MaxFaces,
      matched_persons |-> PyList(<<>>)]}

\* MongoDB gives every stored document a unique _id; filename is the unique
\* key of an observation; data is the photo blob
StoredDoc(i, body) ==
    [_id |-> [ObjectId |-> i], filename |-> "photo_" \o ToString(i),
     data |-> [bytes |-> i]] @@ body

FaceCorpora ==
    UNION {{[i \in 1..n |-> StoredDoc(i, b[i])] : b \in [1..n -> FaceDocBodies]} :
              n \in 0..MaxDocs}

\* the projection of collection.find(query, projection): the documents
\* found, in cursor order, without the excluded fields
Project(hits, excluded) ==
    [i \in 1..Len(hits) |->
        [k \in DOMAIN hits[i] \ excluded |-> hits[i][k]]]

\* {"matched_persons": {"$in": names}}: the array field holds one of names
MatchesAnyName(doc, names) ==
    /\ "matched_persons" \in DOMAIN doc
    /\ IsList(doc.matched_persons)
    /\ \E i \in DOMAIN doc.matched_persons.items :
           doc.matched_persons.items[i] \in Range(names)

find_known_faces_by_name(collection, name) ==
    Project(SelectSeq(collection,
                      LAMBDA doc : MatchesAnyName(doc, <<name>>)), {})

\* variant: a document whose faces are all matched counts as unknown
is_unknown_ge(doc) ==
    LET face_count == Get(doc, "face_count", 0)
        matched == Get(doc, "matched_persons", PyList(<<>>))
        matched_count == IF IsList(matched) THEN Len(matched.items) ELSE 0
    IN  face_count >= matched_count

\* variant: any difference between the two counts makes a document unknown
is_unknown_ne(doc) ==
    LET face_count == Get(doc, "face_count", 0)
        matched == Get(doc, "matched_persons", PyList(<<>>))
        matched_count == IF IsList(matched) THEN Len(matched.items) ELSE 0
    IN  face_count # matched_count

\* the loop body of find_unknown_faces: the unknown decision for one document
is_unknown(doc) ==
    LET face_count == Get(doc, "face_count", 0)
        matched == Get(doc, "matched_persons", PyList(<<>>))
        matched_count == IF IsList(matched) THEN Len(matched.items) ELSE 0
    IN  face_count > matched_count

find_unknown_faces(collection) ==
    LET results == Project(
                       SelectSeq(collection,
                           LAMBDA doc : "has_faces" \in DOMAIN doc
                                            /\ doc.has_faces = TRUE),
                       {"data", "embedding", "image"})
    IN  SelectSeq(results, is_unknown)

(***************************************************************************)
(* POST /faces/known of src/main.py                                        *)
(***************************************************************************)
RequestNames == PersonNames
NameLists == SeqsOf(RequestNames, 0, MaxNames)

\* to_jsonable on one document: the ObjectId becomes its string, bytes
\* become a base64 string, every other value is returned as it is
to_jsonable(doc) ==
    [k \in DOMAIN doc |->
        IF k = "_id" THEN Str(doc[k])
        ELSE IF k = "data" THEN "base64:" \o ToString(doc[k].bytes)
        ELSE doc[k]]

\* variant: the inner loop without the seen_ids test
RECURSIVE AppendUnseen_all(_, _)
AppendUnseen_all(acc, results) ==
    IF Len(results) = 0 THEN acc
    ELSE AppendUnseen_all(
             [acc EXCEPT !.found_results = Append(@, Head(results))],
             Tail(results))

\* the inner loop over the documents found for one name
RECURSIVE AppendUnseen(_, _)
AppendUnseen(acc, results) ==
    IF Len(results) = 0 THEN acc
    ELSE LET doc == Head(results)
             doc_id == Str(Get(doc, "_id", PyNone))
         IN  AppendUnseen(
                 IF doc_id \notin acc.seen_ids
                 THEN [acc EXCEPT !.found_results = Append(@, doc),
                                  !.seen_ids = @ \cup {doc_id}]
                 ELSE acc,
                 Tail(results))

\* the outer loop over the requested names
RECURSIVE ForEachName(_, _, _)
ForEachName(collection, acc, names) ==
    IF Len(names) = 0 THEN acc
    ELSE LET name == Head(names)
             results == find_known_faces_by_name(collection, name)
         IN  ForEachName(collection,
                 IF Len(results) > 0
                 THEN AppendUnseen(acc, results)
                 ELSE [acc EXCEPT !.skipped_names = Append(@, name)],
                 Tail(names))

find_known_faces(collection, names) ==
    IF Len(names) = 0
    THEN [status |-> "HTTP 400", result |-> <<>>]
    ELSE LET acc == ForEachName(collection,
                        [found_results |-> <<>>, seen_ids |-> {},
                         skipped_names |-> <<>>],
                        names)
         IN  [status |-> "ok",
              result |-> [results |-> [i \in 1..Len(acc.found_results) |->
                                          to_jsonable(acc.found_results[i])],
                          skipped_names |-> acc.skipped_names]]


(***************************************************************************)
(* Floats and vectors                                                      *)
(***************************************************************************)
NaN == <<0, 0>>
IsNaN(x) == x[2] = 0

\* IEEE comparisons: every comparison with NaN is false
FloatLt(x, y) == ~IsNaN(x) /\ ~IsNaN(y) /\ x[1] * y[2] < y[1] * x[2]
FloatGe(x, y) == ~IsNaN(x) /\ ~IsNaN(y) /\ x[1] * y[2] >= y[1] * x[2]
FloatEq(x, y) == ~IsNaN(x) /\ ~IsNaN(y) /\ x[1] * y[2] = y[1] * x[2]

RECURSIVE SumTo(_, _)
SumTo(f, n) == IF n = 0 THEN 0 ELSE f[n] + SumTo(f, n - 1)

\* np.dot of two vectors of one length, and the square of np.linalg.norm
Dot(a, b) == SumTo([i \in 1..Len(a) |-> a[i] * b[i]], Len(a))
NormSq(a) == Dot(a, a)

\* dot / (|a| * |b|) as a float; 0.0 / 0.0 is NaN
Quotient(a, b) ==
    LET d == Dot(a, b)
    IN  IF NormSq(a) * NormSq(b) = 0 THEN NaN
        ELSE <<(IF d < 0 THEN 0 - d * d ELSE d * d), NormSq(a) * NormSq(b)>>

(***************************************************************************)
(* RAGEngine                                                               *)
(***************************************************************************)
NdArray(rows) == [type |-> "ndarray", rows |-> rows]

\* the records a caller loads: a name, an embedding that may be missing,
\* be the zero vector or have another length, no camera_location
RecordBodies ==
    {[name |-> "Alice", embedding |-> <<1, 0>>],
     [name |-> "Alice", embedding |-> <<1, 1>>],
     [name |-> "unknown", embedding |-> <<0, 0>>],
     [name |-> "Alice"],
     [name |-> "unknown", embedding |-> <<1>>]}

FaceRecord(i, body) == [timestamp |-> "t" \o ToString(i)] @@ body

RecordLists ==
    UNION {{[i \in 1..n |-> FaceRecord(i, b[i])] : b \in [1..n -> RecordBodies]} :
              n \in 0..MaxRecords}

QueryVectors == {<<1, 0>>, <<0, 0>>}
TopKs == {-1} \cup (0..MaxTopK)
SearchNames == {"Alice", "unknown", "Charlie"}

\* the f-string of load_vectors
Text(r) ==
    "Photo of " \o Get(r, "name", "unknown") \o " at "
        \o Get(r, "camera_location", "N/A") \o " time "
        \o Get(r, "timestamp", "N/A")

\* load_vectors(face_records): the status and the three fields afterwards
load_vectors(face_records) ==
    LET new_texts == [i \in 1..Len(face_records) |-> Text(face_records[i])]
        with_embedding == SelectSeq(face_records,
                                    LAMBDA r : "embedding" \in DOMAIN r)
        embeddings == [i \in 1..Len(with_embedding) |->
                          with_embedding[i].embedding]
    IN  IF Len(face_records) = 0
        THEN [status |-> "ValueError", texts |-> texts, vectors |-> vectors,
              metadata |-> metadata]
        ELSE IF Len(embeddings) = 0
        THEN [status |-> "ValueError", texts |-> new_texts,
              vectors |-> vectors, metadata |-> metadata]
        ELSE IF \E i \in DOMAIN embeddings :
                    Len(embeddings[i]) # Len(embeddings[1])
        THEN [status |-> "ValueError", texts |-> new_texts,
              vectors |-> vectors, metadata |-> metadata]
        ELSE [status |-> "ok", texts |-> new_texts,
              vectors |-> NdArray(embeddings), metadata |-> face_records]

\* _cosine_similarity(query_vec) over the stacked rows
cosine_similarity_rows(rows, query_vec) ==
    [i \in 1..Len(rows) |-> Quotient(rows[i], query_vec)]

\* np.argsort(similarity): the orders (as sequences of positions) that are
\* ascending with NaN last; the default sort is not stable, so the order of
\* equal scores is any
SortsBefore(x, y) == (~IsNaN(x) /\ IsNaN(y)) \/ FloatLt(x, y)
ArgSorts(similarity) ==
    LET n == Len(similarity)
    IN  {p \in [1..n -> 1..n] :
            /\ \A i, j \in 1..n : i # j => p[i] # p[j]
            /\ \A i, j \in 1..n :
                   i < j => ~SortsBefore(similarity[p[j]], similarity[p[i]])}

\* s[::-1]
Reversed(s) == [i \in 1..Len(s) |-> s[Len(s) + 1 - i]]

\* s[:k], with Python's meaning of a negative k
Slice(s, k) ==
    IF k >= 0 THEN SubSeq(s, 1, Min(k, Len(s)))
    ELSE SubSeq(s, 1, Max(0, Len(s) + k))

\* query(query_vec, top_k) for one outcome `order` of the argsort
query(query_vec, top_k, order) ==
    LET similarity == cosine_similarity_rows(vectors.rows, query_vec)
        top_indices == Slice(Reversed(order), top_k)
    IN  IF \E i \in DOMAIN top_indices :
               top_indices[i] > Len(texts) \/ top_indices[i] > Len(metadata)
        THEN [status |-> "IndexError", result |-> <<>>]
        ELSE [status |-> "ok",
              result |-> [i \in 1..Len(top_indices) |->
                            [text |-> texts[top_indices[i]],
                             score |-> similarity[top_indices[i]],
                             metadata |-> metadata[top_indices[i]]]]]

\* variant: the comparison of the names inverted
RecordsNamed_other(name) ==
    SelectSeq(metadata, LAMBDA r : "name" \in DOMAIN r /\ r.name # name)

\* [r for r in self.metadata if r.get("name") == name]
RecordsNamed(name) ==
    SelectSeq(metadata, LAMBDA r : "name" \in DOMAIN r /\ r.name = name)

\* variant: no guard on an engine without data
find_known_person_unguarded(name) ==
    [status |-> "ok", result |-> RecordsNamed(name)]

\* find_known_person(name)
find_known_person(name) ==
    IF Len(metadata) = 0
    THEN [status |-> "ValueError", result |-> <<>>]
    ELSE [status |-> "ok", result |-> RecordsNamed(name)]

\* RAGEngine.find_unknown_faces()
engine_find_unknown_faces ==
    IF Len(metadata) = 0
    THEN [status |-> "ValueError", result |-> <<>>]
    ELSE [status |-> "ok", result |-> RecordsNamed("unknown")]

(***************************************************************************)
(* Similarity searches of FaceSearcher (src/tests/test_search.py)          *)
(***************************************************************************)
\* variant: the dot product without the division by the norms
cosine_similarity_dot(vec1, vec2) ==
    LET d == Dot(vec1, vec2)
    IN  <<(IF d < 0 THEN 0 - d * d ELSE d * d), 1>>

\* variant: a zero vector is similar to everything
cosine_similarity_one(vec1, vec2) ==
    IF NormSq(vec1) = 0 \/ NormSq(vec2) = 0 THEN <<1, 1>>
    ELSE Quotient(vec1, vec2)

\* cosine_similarity(vec1, vec2) of utils/vector_utils.py
cosine_similarity(vec1, vec2) ==
    IF NormSq(vec1) = 0 \/ NormSq(vec2) = 0 THEN <<0, 1>>
    ELSE Quotient(vec1, vec2)

\* the thresholds 0.5, 0.75 and 0.8
Thresholds == {<<1, 4>>, <<9, 16>>, <<16, 25>>}

\* observations: photos with faces, the embedding may be missing
ObservationBodies ==
    {[has_faces |-> TRUE, embedding |-> v] :
        v \in {<<1, 0>>, <<1, 1>>, <<0, 1>>, <<0, 0>>}}
    \cup {[has_faces |-> TRUE]}

Observation(i, body) == [filename |-> "photo_" \o ToString(i)] @@ body

ObservationCorpora ==
    UNION {{[i \in 1..n |-> Observation(i, b[i])] : b \in [1..n -> ObservationBodies]} :
              n \in 0..MaxDocs}

\* references: one embedding per known identity
ReferenceRecords ==
    {[name |-> n, embedding |-> v] :
        n \in PersonNames, v \in {<<1, 0>>, <<0, 0>>}}

ReferenceCorpora ==
    {refs \in SeqsOf(ReferenceRecords, 0, MaxRefs) :
        \A i, j \in DOMAIN refs : i # j => refs[i].name # refs[j].name}

\* find_photos_with_person(name, threshold)
find_photos_with_person(observations, references, name, threshold) ==
    LET known == SelectSeq(references, LAMBDA r : r.name = name)
        candidates == SelectSeq(observations,
                          LAMBDA doc : "embedding" \in DOMAIN doc)
        scored == [i \in 1..Len(candidates) |->
                      [filename |-> candidates[i].filename,
                       similarity |-> cosine_similarity(
                                          candidates[i].embedding,
                                          known[1].embedding)]]
    IN  IF Len(known) = 0 THEN <<>>
        ELSE SelectSeq(scored,
                       LAMBDA r : FloatGe(r.similarity, threshold))

\* the largest of the similarities to the references, 0.0 without references
RECURSIVE MaxSimilarity(_, _)
MaxSimilarity(embedding, references) ==
    IF Len(references) = 0 THEN <<0, 1>>
    ELSE LET s == cosine_similarity(embedding, Head(references).embedding)
             rest == MaxSimilarity(embedding, Tail(references))
         IN  IF Len(references) = 1 \/ FloatGe(s, rest) THEN s ELSE rest

\* find_unknown_faces(threshold)
find_unknown_by_similarity(observations, references, threshold) ==
    LET candidates == SelectSeq(observations,
                          LAMBDA doc : "embedding" \in DOMAIN doc)
        scored == [i \in 1..Len(candidates) |->
                      [filename |-> candidates[i].filename,
                       max_similarity |-> MaxSimilarity(
                                              candidates[i].embedding,
                                              references)]]
    IN  SelectSeq(scored, LAMBDA r : FloatLt(r.max_similarity, threshold))

(***************************************************************************)
(* External collaborators: the store and the embedder                      *)
(***************************************************************************)
\* variant: the exception of the store is caught and an empty list returned
Propagated_swallowed(store_ok, outcome, error) ==
    IF store_ok THEN outcome ELSE [status |-> "ok", result |-> <<>>]

\* collection.find / list(cursor) raises when the store is unreachable, and
\* no method of FaceSearcher and no caller in POST /faces/known catches it
Propagated(store_ok, outcome, error) ==
    IF store_ok THEN outcome ELSE [status |-> error, result |-> <<>>]

\* what the last operation met at the store: no call, answers, or a failure
Upstream(called, store_ok) ==
    IF ~called THEN "unused" ELSE IF store_ok THEN "ok" ELSE "failed"

\* the uploaded file: no bytes, or a photo
Images == {"", "jpeg"}

\* embed(image): a failure of the embedder, or the vector of the photo
EmbedOutcomes ==
    {[status |-> "error"],
     [status |-> "ok", vector |-> <<1, 0>>],
     [status |-> "ok", vector |-> <<1, 1>>]}

\* the default threshold 0.8 of POST /faces/search
DefaultThreshold == <<16, 25>>

\* search_by_photo(image_bytes, threshold): nothing for an empty image; else
\* the query vector of the embedder and the stored records at least as
\* similar as the threshold, with their score, in the order of the store
search_by_photo(collection, image_bytes, threshold, embedded, store_ok) ==
    LET candidates == SelectSeq(collection,
                          LAMBDA doc : "embedding" \in DOMAIN doc)
        scored == [i \in 1..Len(candidates) |->
                      [filename |-> candidates[i].filename,
                       similarity |-> cosine_similarity(
                                          candidates[i].embedding,
                                          embedded.vector)]]
    IN  IF image_bytes = "" THEN [status |-> "ok", result |-> <<>>]
        ELSE IF embedded.status # "ok" \/ ~store_ok
        THEN [status |-> "UpstreamUnavailable", result |-> <<>>]
        ELSE [status |-> "ok",
              result |-> SelectSeq(scored,
                             LAMBDA r : FloatGe(r.similarity, threshold))]

\* POST /faces/search: try the search, except Exception answer HTTP 500
find_person_from_photo(searched, threshold) ==
    IF searched.status # "ok"
    THEN [status |-> "HTTP 500", result |-> [detail |-> searched.status]]
    ELSE [status |-> "ok",
          result |-> [results |-> searched.result, threshold |-> threshold]]

(***************************************************************************)
(* State machine                                                           *)
(***************************************************************************)
NoResponse == [op |-> "none", args |-> <<>>, status |-> "ok", result |-> <<>>]

\* RAGEngine.__init__
EngineEmpty ==
    /\ texts = <<>>
    /\ vectors = PyNone
    /\ metadata = <<>>

\* src/main.py: the searcher is built over the connected collections
InitMain ==
    /\ app = "main"
    /\ faces_collection \in FaceCorpora
    /\ known_faces_collection = <<>>
    /\ EngineEmpty
    /\ response = NoResponse

\* src/app/main.py: rag_engine = RAGEngine()
InitRag ==
    /\ app = "app.main"
    /\ faces_collection = <<>>
    /\ known_faces_collection = <<>>
    /\ EngineEmpty
    /\ response = NoResponse

\* src/tests/test_search.py: FaceSearcher(face_collection, known_collection)
InitTests ==
    /\ app = "tests"
    /\ faces_collection \in ObservationCorpora
    /\ known_faces_collection \in ReferenceCorpora
    /\ EngineEmpty
    /\ response = NoResponse

Init == InitMain \/ InitRag \/ InitTests

\* FaceSearcher.find_unknown_faces(), the store answering or not
FindUnknownFaces(store_ok) ==
    /\ app = "main"
    /\ LET r == Propagated(store_ok,
                     [status |-> "ok",
                      result |-> find_unknown_faces(faces_collection)],
                     "PyMongoError")
       IN  response' = [op |-> "FaceSearcher.find_unknown_faces",
                        args |-> <<>>, status |-> r.status,
                        result |-> r.result,
                        upstream |-> Upstream(TRUE, store_ok)]
    /\ UNCHANGED <<app, faces_collection, known_faces_collection, texts, vectors, metadata>>

\* FaceSearcher.find_known_faces_by_name(name), the store answering or not
FindKnownFacesByName(name, store_ok) ==
    /\ app = "main"
    /\ LET r == Propagated(store_ok,
                     [status |-> "ok",
                      result |-> find_known_faces_by_name(faces_collection,
                                                          name)],
                     "PyMongoError")
       IN  response' = [op |-> "FaceSearcher.find_known_faces_by_name",
                        args |-> <<name>>, status |-> r.status,
                        result |-> r.result,
                        upstream |-> Upstream(TRUE, store_ok)]
    /\ UNCHANGED <<app, faces_collection, known_faces_collection, texts, vectors, metadata>>

\* POST /faces/known; fail_at is the call of the searcher at which the store
\* fails, 0 when it answers every call
PostFacesKnown(names, fail_at) ==
    /\ app = "main"
    /\ fail_at \in 0..Len(names)
    /\ LET r == Propagated(fail_at = 0,
                     find_known_faces(faces_collection, names), "HTTP 500")
       IN  response' = [op |-> "POST /faces/known", args |-> names,
                        status |-> r.status, result |-> r.result,
                        upstream |-> Upstream(Len(names) > 0, fail_at = 0)]
    /\ UNCHANGED <<app, faces_collection, known_faces_collection, texts, vectors, metadata>>

\* POST /faces/search with the default threshold
PostFacesSearch(image_bytes, embedded, store_ok) ==
    /\ app = "main"
    /\ LET searched == search_by_photo(faces_collection, image_bytes,
                            DefaultThreshold, embedded, store_ok)
           r == find_person_from_photo(searched, DefaultThreshold)
       IN  response' = [op |-> "POST /faces/search",
                        args |-> <<image_bytes>>, embedded |-> embedded,
                        status |-> r.status, result |-> r.result,
                        upstream |-> Upstream(image_bytes # "",
                                        embedded.status = "ok" /\ store_ok)]
    /\ UNCHANGED <<app, faces_collection, known_faces_collection, texts, vectors, metadata>>

\* RAGEngine.load_vectors(face_records).  No route of src/app/main.py calls
\* it: the owner of the engine loads it, again after a failure, before the
\* routes serve searches.  A load reads nothing of the previous response, so
\* the engine states reached are those of any order of loads and searches.
LoadVectors(face_records) ==
    /\ app = "app.main"
    /\ response.op \in {"none", "RAGEngine.load_vectors"}
    /\ LET r == load_vectors(face_records)
       IN  /\ texts' = r.texts
           /\ vectors' = r.vectors
           /\ metadata' = r.metadata
           /\ response' = [op |-> "RAGEngine.load_vectors",
                           args |-> <<>>, status |-> r.status,
                           result |-> <<>>]
    /\ UNCHANGED <<app, faces_collection, known_faces_collection>>

\* RAGEngine.query(query_vec, top_k)
Query(query_vec, top_k) ==
    /\ app = "app.main"
    /\ \/ /\ vectors = PyNone
          /\ response' = [op |-> "RAGEngine.query",
                          args |-> <<query_vec, top_k>>,
                          status |-> "ValueError", result |-> <<>>]
       \/ /\ vectors # PyNone
          /\ Len(vectors.rows[1]) # Len(query_vec)
          /\ response' = [op |-> "RAGEngine.query",
                          args |-> <<query_vec, top_k>>,
                          status |-> "ValueError", result |-> <<>>]
       \/ /\ vectors # PyNone
          /\ Len(vectors.rows[1]) = Len(query_vec)
          /\ \E order \in ArgSorts(cosine_similarity_rows(vectors.rows, query_vec)) :
                LET r == query(query_vec, top_k, order)
                IN  response' = [op |-> "RAGEngine.query",
                                 args |-> <<query_vec, top_k>>,
                                 status |-> r.status, result |-> r.result]
    /\ UNCHANGED <<app, faces_collection, known_faces_collection, texts, vectors, metadata>>

\* variant: the search keeps only the records it found
FindKnownPerson_consuming(name) ==
    /\ app = "app.main"
    /\ LET r == find_known_person(name)
       IN  /\ response' = [op |-> "RAGEngine.find_known_person",
                           args |-> <<name>>, status |-> r.status,
                           result |-> r.result]
           /\ metadata' = r.result
    /\ UNCHANGED <<app, faces_collection, known_faces_collection, texts, vectors>>

\* RAGEngine.find_known_person(name)
FindKnownPerson(name) ==
    /\ app = "app.main"
    /\ LET r == find_known_person(name)
       IN  response' = [op |-> "RAGEngine.find_known_person",
                        args |-> <<name>>, status |-> r.status,
                        result |-> r.result]
    /\ UNCHANGED <<app, faces_collection, known_faces_collection, texts, vectors, metadata>>

\* RAGEngine.find_unknown_faces()
EngineFindUnknownFaces ==
    /\ app = "app.main"
    /\ LET r == engine_find_unknown_faces
       IN  response' = [op |-> "RAGEngine.find_unknown_faces",
                        args |-> <<>>, status |-> r.status,
                        result |-> r.result]
    /\ UNCHANGED <<app, faces_collection, known_faces_collection, texts, vectors, metadata>>

\* FaceSearcher.find_photos_with_person(name, threshold)
FindPhotosWithPerson(name, threshold) ==
    /\ app = "tests"
    /\ response' = [op |-> "FaceSearcher.find_photos_with_person",
                    args |-> <<name, threshold>>, status |-> "ok",
                    result |-> find_photos_with_person(faces_collection,
                                   known_faces_collection, name, threshold)]
    /\ UNCHANGED <<app, faces_collection, known_faces_collection, texts, vectors, metadata>>

\* FaceSearcher.find_unknown_faces(threshold)
FindUnknownBySimilarity(threshold) ==
    /\ app = "tests"
    /\ response' = [op |-> "FaceSearcher.find_unknown_faces(threshold)",
                    args |-> <<threshold>>, status |-> "ok",
                    result |-> find_unknown_by_similarity(faces_collection,
                                   known_faces_collection, threshold)]
    /\ UNCHANGED <<app, faces_collection, known_faces_collection, texts, vectors, metadata>>

\* the routes and searches of src/main.py while the store and the embedder
\* answer
NextMain ==
    \/ FindUnknownFaces(TRUE)
    \/ \E name \in RequestNames : FindKnownFacesByName(name, TRUE)
    \/ \E names \in NameLists : PostFacesKnown(names, 0)
    \/ \E image_bytes \in Images,
          embedded \in {e \in EmbedOutcomes : e.status = "ok"} :
           PostFacesSearch(image_bytes, embedded, TRUE)

\* the routes and searches of src/main.py over a store and an embedder that
\* may fail at any call
NextUpstream ==
    \/ \E store_ok \in BOOLEAN : FindUnknownFaces(store_ok)
    \/ \E name \in RequestNames, store_ok \in BOOLEAN :
           FindKnownFacesByName(name, store_ok)
    \/ \E names \in NameLists, fail_at \in 0..MaxNames :
           PostFacesKnown(names, fail_at)
    \/ \E image_bytes \in Images, embedded \in EmbedOutcomes,
          store_ok \in BOOLEAN :
           PostFacesSearch(image_bytes, embedded, store_ok)

\* the engine of src/app/main.py
NextRag ==
    \/ \E face_records \in RecordLists : LoadVectors(face_records)
    \/ \E query_vec \in QueryVectors, top_k \in TopKs : Query(query_vec, top_k)
    \/ \E name \in SearchNames : FindKnownPerson(name)
    \/ EngineFindUnknownFaces

\* the similarity searches of src/tests/test_search.py
NextTests ==
    \/ \E name \in RequestNames, threshold \in Thresholds :
           FindPhotosWithPerson(name, threshold)
    \/ \E threshold \in Thresholds : FindUnknownBySimilarity(threshold)

Next == NextMain \/ NextRag \/ NextTests

Spec == Init /\ [][Next]_vars
SpecMain == InitMain /\ [][NextMain]_vars
SpecUpstream == InitMain /\ [][NextUpstream]_vars
SpecRag == InitRag /\ [][NextRag]_vars
SpecTests == InitTests /\ [][NextTests]_vars

(***************************************************************************)
(* Properties of the metadata searches (SpecMain)                          *)
(***************************************************************************)
\* the number of entries in matched_persons; a missing or null field has none
Entries(doc) ==
    IF "matched_persons" \in DOMAIN doc /\ doc.matched_persons.type = "list"
    THEN Len(doc.matched_persons.items) ELSE 0

\* the asserted number of faces; a missing field asserts none
Faces(doc) == IF "face_count" \in DOMAIN doc THEN doc.face_count ELSE 0

\* a stored document without its binary payload
WithoutPayload(doc) ==
    [k \in DOMAIN doc \ {"data", "embedding", "image"} |-> doc[k]]

\* the positions of the stored documents that still hold unidentified faces
UnknownPositions ==
    {i \in DOMAIN faces_collection :
        faces_collection[i].has_faces /\ Faces(faces_collection[i]) > Entries(faces_collection[i])}

\* C1: find_unknown_faces returns exactly the documents with has_faces whose
\* face_count is strictly greater than the number of matched persons, in the
\* order of the collection: none of them is left out, no other is returned.
C1_UnknownSearchExact ==
    response.op = "FaceSearcher.find_unknown_faces" =>
        /\ Len(response.result) = Cardinality(UnknownPositions)
        /\ \A i \in UnknownPositions :
               \E j \in DOMAIN response.result :
                   response.result[j] = WithoutPayload(faces_collection[i])
        /\ \A j \in DOMAIN response.result :
               \E i \in UnknownPositions :
                   response.result[j] = WithoutPayload(faces_collection[i])
        /\ \A j, k \in DOMAIN response.result :
               j < k =>
                   \E i, l \in UnknownPositions :
                       /\ i < l
                       /\ response.result[j] = WithoutPayload(faces_collection[i])
                       /\ response.result[k] = WithoutPayload(faces_collection[l])

\* an unknown search that returned a document and left a resolved one out
C1_Witness ==
    /\ response.op = "FaceSearcher.find_unknown_faces"
    /\ Len(response.result) >= 1
    /\ \E i \in DOMAIN faces_collection :
           /\ faces_collection[i].has_faces
           /\ "face_count" \in DOMAIN faces_collection[i]
           /\ faces_collection[i].face_count >= 1
           /\ faces_collection[i].face_count = Entries(faces_collection[i])

\* C2: the unknown decision is total: it is a boolean for every document
\* (missing face_count, missing or null matched_persons, more matched
\* persons than faces), the search does not raise, and a document with more
\* matched persons than faces is never reported.
C2_UnknownDecisionTotal ==
    /\ \A i \in DOMAIN faces_collection :
           app = "main" => is_unknown(faces_collection[i]) \in BOOLEAN
    /\ response.op = "FaceSearcher.find_unknown_faces" =>
           /\ response.status = "ok"
           /\ \A i \in DOMAIN faces_collection :
                  Entries(faces_collection[i]) > Faces(faces_collection[i]) =>
                      \A j \in DOMAIN response.result :
                          response.result[j].filename # faces_collection[i].filename

\* an unknown search over a document with more matched persons than faces
\* and a document whose matched_persons is null
C2_Witness ==
    /\ response.op = "FaceSearcher.find_unknown_faces"
    /\ \E i \in DOMAIN faces_collection :
           /\ faces_collection[i].has_faces
           /\ Entries(faces_collection[i]) > Faces(faces_collection[i])
    /\ \E i \in DOMAIN faces_collection :
           /\ faces_collection[i].has_faces
           /\ "matched_persons" \in DOMAIN faces_collection[i]
           /\ faces_collection[i].matched_persons = PyNone

\* the stored document carries the name among its matched persons
Carries(doc, name) ==
    /\ "matched_persons" \in DOMAIN doc
    /\ doc.matched_persons.type = "list"
    /\ \E i \in DOMAIN doc.matched_persons.items :
           doc.matched_persons.items[i] = name

\* the position in names of the first name the document carries
FirstName(doc, names) ==
    CHOOSE k \in DOMAIN names :
        /\ Carries(doc, names[k])
        /\ \A m \in DOMAIN names : Carries(doc, names[m]) => k <= m

\* the position in the collection of the document with the filename
PositionOf(filename) ==
    CHOOSE i \in DOMAIN faces_collection :
        faces_collection[i].filename = filename

RankedQuery ==
    /\ response.op = "RAGEngine.query"
    /\ vectors # PyNone
    /\ Len(response.args[1]) = Len(vectors.rows[1])

\* the scores of a result list do not increase from first to last
NonIncreasing(results) ==
    \A i \in 1..(Len(results) - 1) :
        FloatGe(results[i].score, results[i + 1].score)

\* the position in metadata of a loaded record
RecordPosition(record) == CHOOSE i \in DOMAIN metadata : metadata[i] = record

\* C3: for every query vector, loaded corpus and k the ranked search returns
\* exactly min(k, len(corpus)) results (none for a negative k) with
\* non-increasing scores.
C3_TopKBound ==
    RankedQuery =>
        /\ response.status = "ok"
        /\ Len(response.result) = Max(0, Min(response.args[2], Len(metadata)))
        /\ NonIncreasing(response.result)

\* C4: the ranked search returns an empty list for every top_k <= 0 and the
\* whole corpus in sorted order when top_k is greater than the corpus size.
C4_TopKEdges ==
    RankedQuery =>
        /\ response.args[2] <= 0 =>
               response.status = "ok" /\ Len(response.result) = 0
        /\ response.args[2] > Len(metadata) =>
               /\ response.status = "ok"
               /\ Len(response.result) = Len(metadata)
               /\ \A i \in DOMAIN metadata :
                      \E j \in DOMAIN response.result :
                          response.result[j].metadata = metadata[i]
               /\ NonIncreasing(response.result)

\* C5: records of equal similarity are returned in corpus order, the earlier
\* one first, and when only one of them fits under top_k it is the earlier.
C5_StableTies ==
    (RankedQuery /\ response.status = "ok") =>
        LET results == response.result
            similarity == cosine_similarity_rows(vectors.rows, response.args[1])
            returned == {RecordPosition(results[j].metadata) : j \in DOMAIN results}
        IN  /\ \A i, j \in DOMAIN results :
                   (i < j /\ FloatEq(results[i].score, results[j].score)) =>
                       RecordPosition(results[i].metadata)
                           < RecordPosition(results[j].metadata)
            /\ \A j \in DOMAIN results :
                   \A m \in DOMAIN similarity :
                       (m \notin returned /\ FloatEq(similarity[m], results[j].score)) =>
                           RecordPosition(results[j].metadata) < m

\* C8: a search for a name that no loaded record carries returns an empty
\* list and raises nothing, whatever the non-empty corpus holds.
C8_UnknownNameEmpty ==
    ( /\ response.op = "RAGEngine.find_known_person"
      /\ Len(metadata) > 0
      /\ \A i \in DOMAIN metadata :
             "name" \in DOMAIN metadata[i] => metadata[i].name # response.args[1] ) =>
        /\ response.status = "ok"
        /\ Len(response.result) = 0

\* a search for Charlie over a loaded corpus of two records
C8_Witness ==
    /\ response.op = "RAGEngine.find_known_person"
    /\ response.args = <<"Charlie">>
    /\ Len(metadata) = 2
    /\ response.status = "ok"
    /\ Len(response.result) = 0

(***************************************************************************)
(* Searches over an empty corpus (Spec)                                    *)
(***************************************************************************)
SearcherOps == {"FaceSearcher.find_unknown_faces",
                "FaceSearcher.find_known_faces_by_name"}
EngineOps == {"RAGEngine.find_known_person", "RAGEngine.find_unknown_faces",
              "RAGEngine.query"}

SearcherOnEmptyCorpus ==
    app = "main" /\ Len(faces_collection) = 0 /\ response.op \in SearcherOps
EngineOnEmptyCorpus ==
    app = "app.main" /\ Len(metadata) = 0 /\ response.op \in EngineOps

CosineAtLeast(a, b, threshold) ==
    LET d == Dot(a, b)
        n == NormSq(a) * NormSq(b)
    IN  IF n = 0 THEN 0 >= threshold[1]
        ELSE (IF d < 0 THEN 0 - d * d ELSE d * d) * threshold[2]
                 >= threshold[1] * n

\* the reference record of a name
ReferenceOf(name) ==
    CHOOSE r \in Range(known_faces_collection) : r.name = name

\* the observations that have an embedding
Embedded ==
    {doc \in Range(faces_collection) : "embedding" \in DOMAIN doc}

\* C7: for a known identity the search returns exactly the observations
\* that have an embedding whose cosine similarity to the reference is at
\* least the threshold, each once with its filename and a similarity that
\* is at least the threshold; a higher threshold never gives more results.
C7_IdentitySearchThreshold ==
    ( /\ response.op = "FaceSearcher.find_photos_with_person"
      /\ \E r \in Range(known_faces_collection) : r.name = response.args[1] ) =>
        LET name == response.args[1]
            threshold == response.args[2]
            results == response.result
        IN  /\ {results[j].filename : j \in DOMAIN results}
                   = {doc.filename : doc \in
                         {o \in Embedded :
                             CosineAtLeast(o.embedding,
                                 ReferenceOf(name).embedding, threshold)}}
            /\ \A i, j \in DOMAIN results :
                   i # j => results[i].filename # results[j].filename
            /\ \A j \in DOMAIN results :
                   /\ {"filename", "similarity"} \subseteq DOMAIN results[j]
                   /\ FloatGe(results[j].similarity, threshold)
            /\ \A higher \in Thresholds :
                   FloatGe(higher, threshold) =>
                       Len(find_photos_with_person(faces_collection,
                               known_faces_collection, name, higher))
                           <= Len(results)

\* a search that returned an observation and left out one with an embedding,
\* and that returns less under a higher threshold
C7_Witness ==
    /\ response.op = "FaceSearcher.find_photos_with_person"
    /\ \E r \in Range(known_faces_collection) : r.name = response.args[1]
    /\ Len(response.result) >= 1
    /\ Cardinality(Embedded) > Len(response.result)
    /\ \E higher \in Thresholds :
           Len(find_photos_with_person(faces_collection,
                   known_faces_collection, response.args[1], higher))
               < Len(response.result)

PairVectors == {<<1, 0>>, <<1, 1>>, <<0, 1>>, <<0, 0>>}

ZeroNorm(v) == NormSq(v) = 0

\* C11: cosine similarity with a zero-norm vector on either side is 0.0 and
\* never an error or an undefined value, both for the pairwise helper
\* cosine_similarity and for the similarity the ranked search computes when
\* the query vector or a stored vector is the zero vector.
C11_ZeroVectorCosine ==
    /\ \A vec1, vec2 \in PairVectors :
           (ZeroNorm(vec1) \/ ZeroNorm(vec2)) =>
               cosine_similarity(vec1, vec2) = <<0, 1>>
    /\ RankedQuery =>
           LET query_vec == response.args[1]
               similarity == cosine_similarity_rows(vectors.rows, query_vec)
           IN  /\ \A i \in DOMAIN similarity :
                      (ZeroNorm(query_vec) \/ ZeroNorm(vectors.rows[i])) =>
                          similarity[i] = <<0, 1>>
               /\ response.status = "ok" =>
                      \A j \in DOMAIN response.result :
                          ~IsNaN(response.result[j].score)

(***************************************************************************)
(* Failures of the store and the embedder (SpecUpstream)                   *)
(***************************************************************************)
FailureSignals == {"PyMongoError", "HTTP 500"}

\* the last operation of src/main.py answered with an empty list
AnsweredEmpty ==
    /\ response.status = "ok"
    /\ IF response.op \in SearcherOps THEN Len(response.result) = 0
       ELSE Len(response.result.results) = 0

\* no stored document matches the last search
NothingMatches ==
    CASE response.op = "FaceSearcher.find_unknown_faces" ->
             UnknownPositions = {}
      [] response.op = "FaceSearcher.find_known_faces_by_name" ->
             \A i \in DOMAIN faces_collection :
                 ~Carries(faces_collection[i], response.args[1])
      [] response.op = "POST /faces/known" ->
             \A i \in DOMAIN faces_collection :
                 \A k \in DOMAIN response.args :
                     ~Carries(faces_collection[i], response.args[k])
      [] response.op = "POST /faces/search" ->
             \A i \in DOMAIN faces_collection :
                 "embedding" \in DOMAIN faces_collection[i] =>
                     ~CosineAtLeast(faces_collection[i].embedding,
                                    response.embedded.vector, DefaultThreshold)

QueryOps ==
    SearcherOps \cup EngineOps
        \cup {"POST /faces/known", "POST /faces/search",
              "FaceSearcher.find_photos_with_person",
              "FaceSearcher.find_unknown_faces(threshold)"}

\* the answer of the last query is the answer the query has when it runs
\* alone on the records stored and loaded now
SameAsAlone ==
    LET answer == [status |-> response.status, result |-> response.result]
    IN  CASE response.op = "FaceSearcher.find_unknown_faces" ->
                 answer.result = find_unknown_faces(faces_collection)
          [] response.op = "FaceSearcher.find_known_faces_by_name" ->
                 answer.result = find_known_faces_by_name(faces_collection,
                                                          response.args[1])
          [] response.op = "POST /faces/known" ->
                 answer = find_known_faces(faces_collection, response.args)
          [] response.op = "RAGEngine.find_known_person" ->
                 answer = find_known_person(response.args[1])
          [] response.op = "RAGEngine.find_unknown_faces" ->
                 answer = engine_find_unknown_faces
          [] response.op = "RAGEngine.query" ->
                 IF vectors = PyNone
                        \/ Len(vectors.rows[1]) # Len(response.args[1])
                 THEN answer.status = "ValueError"
                 ELSE \E order \in ArgSorts(cosine_similarity_rows(
                                       vectors.rows, response.args[1])) :
                          answer = query(response.args[1], response.args[2],
                                         order)
          [] response.op = "FaceSearcher.find_photos_with_person" ->
                 answer.result = find_photos_with_person(faces_collection,
                                     known_faces_collection,
                                     response.args[1], response.args[2])
          [] response.op = "FaceSearcher.find_unknown_faces(threshold)" ->
                 answer.result = find_unknown_by_similarity(faces_collection,
                                     known_faces_collection, response.args[1])
          [] OTHER -> TRUE

\* C13: no query changes state: every step that answers a FaceSearcher
\* search or a RAGEngine query (query, find_known_person, find_unknown_faces)
\* leaves the stored records and the engine's texts, vectors and metadata
\* as they were, so after any sequence of queries the answer of each query
\* is the answer it has when it runs alone on the same records.
C13_QueriesChangeNothing ==
    /\ [][response'.op \in QueryOps =>
              UNCHANGED <<faces_collection, known_faces_collection,
                          texts, vectors, metadata>>]_vars
    /\ [](response.op \in QueryOps => SameAsAlone)

\* a ranked query answered from a loaded engine of two records
C13_Witness ==
    /\ response.op = "RAGEngine.query"
    /\ response.status = "ok"
    /\ Len(metadata) = 2
    /\ Len(response.result) = 2

(***************************************************************************)
(* Loading (SpecRag)                                                       *)
(***************************************************************************)
\* an embedding of the length of the valid embeddings loaded here
WellFormed(r) == "embedding" \in DOMAIN r /\ Len(r.embedding) = Len(<<1, 0>>)

\* valid records and exactly one record whose embedding has another length
OneMalformed(face_records) ==
    /\ \A i \in DOMAIN face_records : "embedding" \in DOMAIN face_records[i]
    /\ \E i \in DOMAIN face_records : WellFormed(face_records[i])
    /\ Cardinality({i \in DOMAIN face_records :
                       ~WellFormed(face_records[i])}) = 1

\* C14: one record whose embedding is malformed (of another length) is
\* skipped and does not fail the load of the rest: in every state of the
\* engine, loading valid records plus one malformed record succeeds and the
\* loaded vectors are the embeddings of all the valid records.
C14_MalformedSkipped ==
    app = "app.main" =>
        \A face_records \in RecordLists :
            OneMalformed(face_records) =>
                LET r == load_vectors(face_records)
                    valid == SelectSeq(face_records, WellFormed)
                IN  /\ r.status = "ok"
                    /\ r.vectors = NdArray([i \in 1..Len(valid) |->
                                               valid[i].embedding])

\* C15: whenever the engine is loaded the three stores are aligned: texts,
\* metadata and the rows of vectors have one length, row i of vectors is the
\* embedding of metadata[i] and texts[i] is its text, and every result of a
\* query pairs the score with the text and the metadata of the record the
\* score was computed from.
C15_StoresAligned ==
    (app = "app.main" /\ vectors # PyNone) =>
        /\ Len(texts) = Len(metadata)
        /\ Len(vectors.rows) = Len(metadata)
        /\ \A i \in DOMAIN metadata :
               /\ "embedding" \in DOMAIN metadata[i]
               /\ vectors.rows[i] = metadata[i].embedding
               /\ texts[i] = Text(metadata[i])
        /\ (RankedQuery /\ response.status = "ok") =>
               \A j \in DOMAIN response.result :
                   LET hit == response.result[j]
                   IN  /\ hit.text = Text(hit.metadata)
                       /\ "embedding" \in DOMAIN hit.metadata
                       /\ hit.score = Quotient(hit.metadata.embedding,
                                               response.args[1])

\* C16: a load_vectors call that fails (empty record list, no record with
\* an embedding, embeddings of unequal length) leaves texts, vectors and
\* metadata as they were before the call.
C16_FailedLoadChangesNothing ==
    [][(response'.op = "RAGEngine.load_vectors"
            /\ response'.status = "ValueError") =>
           UNCHANGED <<texts, vectors, metadata>>]_vars

====
